---- MODULE Spec2Model ----
(***************************************************************************)
(* Model of mdf2wav (src/mdf2wav.c): a raw CDDA image with subchannel data *)
(* is read sector by sector from standard input and split into one WAV     *)
(* file per track, a track starting at each sector whose subcode P channel *)
(* is all ones.                                                            *)
(*                                                                         *)
(* Bytes are kept symbolically as runs.  A run [src, lo, hi] stands for    *)
(* the bytes lo..hi of a source: src >= 1 is the src-th successful read of *)
(* standard input, src = 0 is the table of byte values (so [0, v, v] is    *)
(* the one byte of value v) and src = -1 is the zeroed State buffer.       *)
(***************************************************************************)
EXTENDS Integers, Sequences, FiniteSets, TLC

VARIABLES
  pc,               \* position of main: read, classify, start, update, final, done
  buf,              \* state.buf: [data: runs of the payload region, sub: 96 subcode bytes]
  output_file_name, \* state.output_file_name
  start_offset,     \* state.start_offset
  end_offset,       \* state.end_offset
  offset,           \* state.offset
  track_fd,         \* state.track_fd
  track_number,     \* state.track_number (its wrap at 2^32 is out of reach)
  num_samples,      \* state.num_samples (uint32 as limbs)
  count,            \* result of the last read(2)
  errno,            \* errno left by the last failed open(2)
  exit_status,      \* value returned by main, -1 while running
  fs,               \* the current directory: file name -> content (runs)
  fdtab,            \* open file descriptions: fd -> [name, pos]
  stderr,           \* lines printed on the diagnostic stream
  hist,             \* history: the successful reads so far, [kind, count]
  exhausted,        \* environment: standard input has no byte left
  fs0,              \* history: the directory before the run
  created,          \* history: names created by the run, in order
  open_failed       \* history: some open(2) of a track file failed

vars == <<pc, buf, output_file_name, start_offset, end_offset, offset,
          track_fd, track_number, num_samples, count, errno, exit_status,
          fs, fdtab, stderr, hist, exhausted, fs0, created, open_failed>>

----
\* Program constants

WAV_HEADER_SIZE == 44
WAV_SUBCHUNK1_PCM == 16
WAV_FORMAT_PCM == 1
DATA_SIZE == 2352
SUBCODE_SIZE == 96
BLOCK_SIZE == DATA_SIZE + SUBCODE_SIZE
SUBCODE_P == 128
sample_rate == 44100
bits_per_sample == 16
num_channels == 2
INVALID_FD == -1
BITS_PER_BYTE == 8
SEEK_SET == 0
UINT16 == 65536

----
\* Bounds of the model

\* streams of up to MaxSectors sectors are enumerated over every sector kind
MaxSectors == 4
\* longer streams, up to MaxRun sectors, repeat the kind of the last sector
MaxRun == 12
\* streams of one kind of sector only are enumerated up to MaxLong sectors
MaxLong == 101
\* tracks 1..MaxPre may exist in the directory before the run
MaxPre == 2

----
\* Byte runs

Lit(v) == [src |-> 0, lo |-> v, hi |-> v]
RunLen(r) == r.hi - r.lo + 1

RECURSIVE BLen(_)
BLen(c) == IF c = <<>> THEN 0 ELSE RunLen(Head(c)) + BLen(Tail(c))

\* the first n bytes of c
RECURSIVE TakeB(_, _)
TakeB(c, n) ==
  IF n <= 0 \/ c = <<>> THEN <<>>
  ELSE IF RunLen(Head(c)) <= n
       THEN <<Head(c)>> \o TakeB(Tail(c), n - RunLen(Head(c)))
       ELSE <<[Head(c) EXCEPT !.hi = Head(c).lo + n - 1]>>

\* c without its first n bytes
RECURSIVE DropB(_, _)
DropB(c, n) ==
  IF n <= 0 \/ c = <<>> THEN c
  ELSE IF RunLen(Head(c)) <= n
       THEN DropB(Tail(c), n - RunLen(Head(c)))
       ELSE <<[Head(c) EXCEPT !.lo = Head(c).lo + n]>> \o Tail(c)

----
\* 32-bit unsigned integers.  The model checker's integers are 32-bit signed,
\* so a uint32_t is kept as two 16-bit limbs, [hi, lo] = hi * 2^16 + lo, and
\* its arithmetic wraps modulo 2^32 as in C.

\* the uint32_t of value n, 0 <= n < 2^31
U32(n) == [hi |-> (n \div UINT16) % UINT16, lo |-> n % UINT16]

\* a + b modulo 2^32
U32Add(a, b) ==
  [hi |-> (a.hi + b.hi + (a.lo + b.lo) \div UINT16) % UINT16,
   lo |-> (a.lo + b.lo) % UINT16]

\* a * k modulo 2^32, for 0 <= k < 2^15
U32Mul(a, k) ==
  [hi |-> (a.hi * k + (a.lo * k) \div UINT16) % UINT16,
   lo |-> (a.lo * k) % UINT16]

\* value of the literal byte at offset off of c (-1 when there is none)
ByteAt(c, off) ==
  LET r == DropB(c, off)
  IN IF r # <<>> /\ Head(r).src = 0 THEN Head(r).lo ELSE -1

\* little-endian 32-bit field at offset off of c
Le32At(c, off) ==
  [hi |-> ByteAt(c, off + 2) + 256 * ByteAt(c, off + 3),
   lo |-> ByteAt(c, off) + 256 * ByteAt(c, off + 1)]

----
\* Header encoding

write_le16(v) == << v % 256, (v \div 256) % 256 >>

write_le32(v) ==
  << v.lo % 256, (v.lo \div 256) % 256, v.hi % 256, (v.hi \div 256) % 256 >>

RIFF == <<82, 73, 70, 70>>
WAVE == <<87, 65, 86, 69>>
FMT_ == <<102, 109, 116, 32>>
DATA == <<100, 97, 116, 97>>

\* variant: the channel count left out
block_align_mono == (bits_per_sample \div 8) % UINT16

block_align == (num_channels * (bits_per_sample \div 8)) % UINT16
byte_rate == U32Mul(U32(sample_rate), block_align)
subchunk2_size(n) == U32Mul(n, block_align)
chunk_size(n) == U32Add(U32(36), subchunk2_size(n))

\* the 44 bytes write_wav_header builds for num_samples = n
wav_header(n) ==
  RIFF \o write_le32(chunk_size(n)) \o WAVE \o FMT_
    \o write_le32(U32(WAV_SUBCHUNK1_PCM)) \o write_le16(WAV_FORMAT_PCM)
    \o write_le16(num_channels) \o write_le32(U32(sample_rate))
    \o write_le32(byte_rate) \o write_le16(block_align)
    \o write_le16(bits_per_sample) \o DATA \o write_le32(subchunk2_size(n))

LitRuns(bytes) == [i \in 1..Len(bytes) |-> Lit(bytes[i])]

----
\* The file sink: lseek(2), write(2), close(2) on the descriptor table

\* content c with data written at byte offset pos (a hole is not modelled:
\* the program never seeks past the end)
WriteAt(c, pos, data) ==
  TakeB(c, pos) \o data \o DropB(c, pos + BLen(data))

\* lseek(fd, off, whence): only whence = SEEK_SET occurs
Lseek(tab, fd, off, whence) ==
  IF fd \in DOMAIN tab /\ whence = SEEK_SET
  THEN [tab EXCEPT ![fd].pos = off] ELSE tab

\* write(fd, data): <<directory, table>> afterwards; EBADF leaves both alone
Write(dir, tab, fd, data) ==
  IF fd \in DOMAIN tab
  THEN << [dir EXCEPT ![tab[fd].name] = WriteAt(@, tab[fd].pos, data)],
          [tab EXCEPT ![fd].pos = @ + BLen(data)] >>
  ELSE << dir, tab >>

Close(tab, fd) == [f \in DOMAIN tab \ {fd} |-> tab[f]]

\* variant: the header is written at the current position
write_wav_header_no_seek(dir, tab, fd, n) ==
  Write(dir, tab, fd, LitRuns(wav_header(n)))

\* write_wav_header(fd, n): <<directory, table>> afterwards.
\* The call is lseek(fd, SEEK_SET, 0): offset SEEK_SET, whence 0.
write_wav_header(dir, tab, fd, n) ==
  Write(dir, Lseek(tab, fd, SEEK_SET, 0), fd, LitRuns(wav_header(n)))

----
\* Sectors

\* kinds of sector of the input image, by their subcode region:
\*   "B"  every subcode byte 255 (P set everywhere)
\*   "N"  every subcode byte 0
\*   "N1" first subcode byte 127 (P clear), the others 255
Kinds == {"B", "N", "N1"}

\* i-th (1-based) subcode byte of a sector of kind k
SubByte(k, i) ==
  CASE k = "B" -> 255
    [] k = "N" -> 0
    [] OTHER -> IF i = 1 THEN 127 ELSE 255

PSet(b) == (b \div SUBCODE_P) % 2 = 1

\* variant: the loop stops one byte early
is_track_start_short(b) == \A i \in 1..(SUBCODE_SIZE - 1) : PSet(b.sub[i])

\* is_track_start(buf): every subcode byte has the P bit
is_track_start(b) == \A i \in 1..SUBCODE_SIZE : PSet(b.sub[i])

\* whether a whole sector of kind k is a track start
IsBoundaryKind(k) == \A i \in 1..SUBCODE_SIZE : PSet(SubByte(k, i))

\* state.buf after read(2) stored the first c bytes of the idx-th read,
\* a sector (or a tail of one) of kind k; the bytes from c on are kept
ReadInto(b, idx, k, c) ==
  [ data |-> IF c >= DATA_SIZE
             THEN << [src |-> idx, lo |-> 0, hi |-> DATA_SIZE - 1] >>
             ELSE << [src |-> idx, lo |-> 0, hi |-> c - 1] >> \o DropB(b.data, c),
    sub  |-> [i \in 1..SUBCODE_SIZE |->
               IF DATA_SIZE + i - 1 < c THEN SubByte(k, i) ELSE b.sub[i]] ]

\* counts of a short read (the tail of the image)
ShortCounts == {1, DATA_SIZE + 1}

----
\* File names

RECURSIVE Digits(_)
Digits(n) == IF n < 10 THEN <<n>> ELSE Digits(n \div 10) \o <<n % 10>>

\* variant: "%u", no padding
Fmt02u_unpadded(n) == Digits(n)

\* printf("%02u", n): decimal, zero-padded to a minimum width of 2
Fmt02u(n) == IF Len(Digits(n)) < 2 THEN <<0>> \o Digits(n) ELSE Digits(n)

\* snprintf(..., "track_%02u.wav", n)
TrackName(n) == [prefix |-> "track_", digits |-> Fmt02u(n), suffix |-> ".wav"]

----
\* open(2) with O_CREAT | O_EXCL | O_WRONLY

\* the lowest descriptor not in use (0, 1 and 2 are the standard streams)
LowestFree(tab) == CHOOSE fd \in 3..(3 + Cardinality(DOMAIN tab)) :
                     /\ fd \notin DOMAIN tab
                     /\ \A g \in 3..(fd - 1) : g \in DOMAIN tab

\* variant: O_EXCL missing, an existing file is opened for writing
open_without_excl(dir, tab, name, envfail) ==
  IF name \notin DOMAIN dir /\ envfail
  THEN [fd |-> -1, errno |-> "EACCES", dir |-> dir, tab |-> tab]
  ELSE [fd |-> LowestFree(tab), errno |-> errno,
        dir |-> IF name \in DOMAIN dir THEN dir ELSE (name :> <<>>) @@ dir,
        tab |-> (LowestFree(tab) :> [name |-> name, pos |-> 0]) @@ tab]

\* result of open(name, O_CREAT | O_EXCL | O_WRONLY, 0644) in directory dir;
\* envfail: the environment refuses the creation of a new file
open(dir, tab, name, envfail) ==
  IF name \in DOMAIN dir
  THEN [fd |-> -1, errno |-> "EEXIST", dir |-> dir, tab |-> tab]
  ELSE IF envfail
  THEN [fd |-> -1, errno |-> "EACCES", dir |-> dir, tab |-> tab]
  ELSE [fd |-> LowestFree(tab), errno |-> errno,
        dir |-> (name :> <<>>) @@ dir,
        tab |-> (LowestFree(tab) :> [name |-> name, pos |-> 0]) @@ tab]

----
\* The program

\* variant: the channel count left out of the divisor
SamplesPerSector_mono == DATA_SIZE \div (bits_per_sample \div BITS_PER_BYTE)

\* samples in the payload region of one sector
SamplesPerSector == DATA_SIZE \div ((bits_per_sample \div BITS_PER_BYTE) * num_channels)

\* duration printed by close_track
duration_s(start, end) ==
  (((end - start) * DATA_SIZE) \div BLOCK_SIZE)
    \div (sample_rate * (bits_per_sample \div BITS_PER_BYTE) * num_channels)

\* variant: the file is closed without the header being rewritten
close_track_no_rewrite ==
  IF track_fd = INVALID_FD
  THEN UNCHANGED <<end_offset, stderr, fs, fdtab>>
  ELSE /\ end_offset' = offset
       /\ stderr' = Append(stderr,
            [line |-> "track", name |-> output_file_name,
             duration_s |-> duration_s(start_offset, offset),
             start_offset |-> start_offset, end_offset |-> offset])
       /\ fs' = fs
       /\ fdtab' = Close(fdtab, track_fd)

\* close_track(state)
close_track ==
  IF track_fd = INVALID_FD
  THEN UNCHANGED <<end_offset, stderr, fs, fdtab>>
  ELSE /\ end_offset' = offset
       /\ stderr' = Append(stderr,
            [line |-> "track", name |-> output_file_name,
             duration_s |-> duration_s(start_offset, offset),
             start_offset |-> start_offset, end_offset |-> offset])
       /\ LET w == write_wav_header(fs, fdtab, track_fd, num_samples)
          IN /\ fs' = w[1]
             /\ fdtab' = Close(w[2], track_fd)

\* variant: the payload is written but the sample count is not advanced
update_track_no_count ==
  IF track_fd # INVALID_FD
  THEN /\ LET w == Write(fs, fdtab, track_fd, TakeB(buf.data, DATA_SIZE))
          IN fs' = w[1] /\ fdtab' = w[2]
       /\ num_samples' = num_samples
  ELSE UNCHANGED <<fs, fdtab, num_samples>>

\* update_track(state)
update_track ==
  IF track_fd # INVALID_FD
  THEN /\ LET w == Write(fs, fdtab, track_fd, TakeB(buf.data, DATA_SIZE))
          IN fs' = w[1] /\ fdtab' = w[2]
       /\ num_samples' = U32Add(num_samples, U32(SamplesPerSector))
  ELSE UNCHANGED <<fs, fdtab, num_samples>>

\* the sectors the environment may deliver next
NextKinds ==
  IF Len(hist) < MaxSectors THEN Kinds
  ELSE IF \/ Len(hist) < MaxRun
          \/ /\ Len(hist) < MaxLong
             /\ \A i \in 1..Len(hist) : hist[i].kind = hist[1].kind
       THEN {hist[Len(hist)].kind}
  ELSE {}

\* the byte counts the next read may return: a whole sector, or (in the
\* streams of up to MaxRun sectors) the tail of the image
NextCounts ==
  {BLOCK_SIZE} \cup (IF Len(hist) < MaxRun THEN ShortCounts ELSE {})

\* main, lines 170-174 with count > 0: a sector, or the tail of the image
Read ==
  /\ pc = "read"
  /\ ~exhausted
  /\ \E k \in NextKinds, c \in NextCounts :
       /\ count' = c
       /\ buf' = ReadInto(buf, Len(hist) + 1, k, c)
       /\ hist' = Append(hist, [kind |-> k, count |-> c])
       /\ exhausted' = (c < BLOCK_SIZE)
  /\ pc' = "classify"
  /\ UNCHANGED <<output_file_name, start_offset, end_offset, offset, track_fd,
                 track_number, num_samples, errno, exit_status, fs, fdtab,
                 stderr, fs0, created, open_failed>>

\* variant: main returns from inside the loop at the end of the input
EndOfInput_return ==
  /\ pc = "read"
  /\ \E c \in {0, -1} : count' = c
  /\ exhausted' = TRUE
  /\ exit_status' = 0
  /\ pc' = "done"
  /\ UNCHANGED <<buf, output_file_name, start_offset, end_offset, offset,
                 track_fd, track_number, num_samples, errno, fs,
                 fdtab, stderr, hist, fs0, created, open_failed>>

\* main, lines 170-174 with count <= 0: end of file or a read error
EndOfInput ==
  /\ pc = "read"
  /\ \E c \in {0, -1} : count' = c
  /\ exhausted' = TRUE
  /\ pc' = "final"
  /\ UNCHANGED <<buf, output_file_name, start_offset, end_offset, offset,
                 track_fd, track_number, num_samples, errno, exit_status, fs,
                 fdtab, stderr, hist, fs0, created, open_failed>>

\* variant: the open track is not closed
TrackStart_no_close ==
  /\ pc = "classify"
  /\ is_track_start(buf)
  /\ track_number' = track_number + 1
  /\ pc' = "start"
  /\ UNCHANGED <<buf, output_file_name, start_offset, end_offset, offset,
                 track_fd, num_samples, count, errno, exit_status, fs, fdtab,
                 stderr, hist, exhausted, fs0, created, open_failed>>

\* main, lines 176-178: the block starts a track
TrackStart ==
  /\ pc = "classify"
  /\ is_track_start(buf)
  /\ track_number' = track_number + 1
  /\ close_track
  /\ pc' = "start"
  /\ UNCHANGED <<buf, output_file_name, start_offset, offset, track_fd,
                 num_samples, count, errno, exit_status, hist, exhausted, fs0,
                 created, open_failed>>

\* main, line 176: the block does not start a track
NoTrackStart ==
  /\ pc = "classify"
  /\ ~is_track_start(buf)
  /\ pc' = "update"
  /\ UNCHANGED <<buf, output_file_name, start_offset, end_offset, offset,
                 track_fd, track_number, num_samples, count, errno,
                 exit_status, fs, fdtab, stderr, hist, exhausted, fs0, created,
                 open_failed>>

\* variant: the result of start_track is ignored
AfterStart_no_break(ok) == "update"

\* main, lines 179-181: where the loop goes after start_track returned ok
AfterStart(ok) == IF ok THEN "update" ELSE "final"

\* variant: no header is written when the file is created
start_track_no_placeholder ==
  /\ pc = "start"
  /\ num_samples' = U32(0)
  /\ start_offset' = offset
  /\ output_file_name' = TrackName(track_number)
  /\ \E envfail \in BOOLEAN :
       LET o == open(fs, fdtab, TrackName(track_number), envfail)
       IN /\ track_fd' = o.fd
          /\ errno' = o.errno
          /\ IF o.fd < 0
             THEN /\ stderr' = Append(stderr,
                       [line |-> IF o.errno = "EEXIST" THEN "exists" ELSE "error",
                        name |-> TrackName(track_number)])
                  /\ fs' = o.dir
                  /\ fdtab' = o.tab
                  /\ open_failed' = TRUE
                  /\ created' = created
                  /\ pc' = AfterStart(FALSE)
             ELSE /\ fs' = o.dir
                  /\ fdtab' = o.tab
                  /\ created' = Append(created, TrackName(track_number))
                  /\ pc' = AfterStart(TRUE)
                  /\ UNCHANGED <<stderr, open_failed>>
  /\ UNCHANGED <<buf, end_offset, offset, track_number, count, exit_status,
                 hist, exhausted, fs0>>

\* variant: a failed open leaves the old descriptor in state.track_fd
start_track_keep_fd ==
  /\ pc = "start"
  /\ num_samples' = U32(0)
  /\ start_offset' = offset
  /\ output_file_name' = TrackName(track_number)
  /\ \E envfail \in BOOLEAN :
       LET o == open(fs, fdtab, TrackName(track_number), envfail)
       IN /\ track_fd' = (IF o.fd < 0 THEN track_fd ELSE o.fd)
          /\ errno' = o.errno
          /\ IF o.fd < 0
             THEN /\ stderr' = Append(stderr,
                       [line |-> IF o.errno = "EEXIST" THEN "exists" ELSE "error",
                        name |-> TrackName(track_number)])
                  /\ fs' = o.dir
                  /\ fdtab' = o.tab
                  /\ open_failed' = TRUE
                  /\ created' = created
                  /\ pc' = AfterStart(FALSE)
             ELSE /\ LET w == write_wav_header(o.dir, o.tab, o.fd, U32(0))
                     IN fs' = w[1] /\ fdtab' = w[2]
                  /\ created' = Append(created, TrackName(track_number))
                  /\ pc' = AfterStart(TRUE)
                  /\ UNCHANGED <<stderr, open_failed>>
  /\ UNCHANGED <<buf, end_offset, offset, track_number, count, exit_status,
                 hist, exhausted, fs0>>

\* start_track(state) and main, lines 179-181
start_track ==
  /\ pc = "start"
  /\ num_samples' = U32(0)
  /\ start_offset' = offset
  /\ output_file_name' = TrackName(track_number)
  /\ \E envfail \in BOOLEAN :
       LET o == open(fs, fdtab, TrackName(track_number), envfail)
       IN /\ track_fd' = o.fd
          /\ errno' = o.errno
          /\ IF o.fd < 0
             THEN /\ stderr' = Append(stderr,
                       [line |-> IF o.errno = "EEXIST" THEN "exists" ELSE "error",
                        name |-> TrackName(track_number)])
                  /\ fs' = o.dir
                  /\ fdtab' = o.tab
                  /\ open_failed' = TRUE
                  /\ created' = created
                  /\ pc' = AfterStart(FALSE)
             ELSE /\ LET w == write_wav_header(o.dir, o.tab, o.fd, U32(0))
                     IN fs' = w[1] /\ fdtab' = w[2]
                  /\ created' = Append(created, TrackName(track_number))
                  /\ pc' = AfterStart(TRUE)
                  /\ UNCHANGED <<stderr, open_failed>>
  /\ UNCHANGED <<buf, end_offset, offset, track_number, count, exit_status,
                 hist, exhausted, fs0>>

\* variant: the offset counts sectors
UpdateTrack_sector_units ==
  /\ pc = "update"
  /\ update_track
  /\ offset' = offset + 1
  /\ pc' = "read"
  /\ UNCHANGED <<buf, output_file_name, start_offset, end_offset, track_fd,
                 track_number, count, errno, exit_status, stderr, hist,
                 exhausted, fs0, created, open_failed>>

\* main, lines 184-185
UpdateTrack ==
  /\ pc = "update"
  /\ update_track
  /\ offset' = offset + BLOCK_SIZE
  /\ pc' = "read"
  /\ UNCHANGED <<buf, output_file_name, start_offset, end_offset, track_fd,
                 track_number, count, errno, exit_status, stderr, hist,
                 exhausted, fs0, created, open_failed>>

\* variant: main returns without the final close_track
Finish_no_close ==
  /\ pc = "final"
  /\ exit_status' = 0
  /\ pc' = "done"
  /\ UNCHANGED <<buf, output_file_name, start_offset, end_offset, offset,
                 track_fd, track_number, num_samples, count, errno, fs, fdtab,
                 stderr, hist, exhausted, fs0, created, open_failed>>

\* main, lines 188-189
Finish ==
  /\ pc = "final"
  /\ close_track
  /\ exit_status' = 0
  /\ pc' = "done"
  /\ UNCHANGED <<buf, output_file_name, start_offset, offset, track_fd,
                 track_number, num_samples, count, errno, hist, exhausted, fs0,
                 created, open_failed>>

\* a file that exists before the run
PreFile == << Lit(1), Lit(2), Lit(3) >>

\* main, lines 162-166, in a directory that may hold some track files
Init ==
  /\ pc = "read"
  /\ buf = [data |-> << [src |-> -1, lo |-> 0, hi |-> DATA_SIZE - 1] >>,
            sub |-> [i \in 1..SUBCODE_SIZE |-> 0]]
  /\ output_file_name = [prefix |-> "", digits |-> << >>, suffix |-> ""]
  /\ start_offset = 0
  /\ end_offset = 0
  /\ offset = 0
  /\ track_fd = INVALID_FD
  /\ track_number = 0
  /\ num_samples = U32(0)
  /\ count = 0
  /\ errno = "0"
  /\ exit_status = -1
  /\ fs \in { [n \in S |-> PreFile] : S \in SUBSET { TrackName(i) : i \in 1..MaxPre } }
  /\ fdtab = << >>
  /\ stderr = << >>
  /\ hist = << >>
  /\ exhausted = FALSE
  /\ fs0 = fs
  /\ created = << >>
  /\ open_failed = FALSE

Next ==
  \/ Read
  \/ EndOfInput
  \/ TrackStart
  \/ NoTrackStart
  \/ start_track
  \/ UpdateTrack
  \/ Finish

Spec == Init /\ [][Next]_vars

\* the positions of main: before read (170), after read (176), before
\* start_track (179), before update_track (184), after the loop (188) and
\* after return (189)
Positions == {"read", "classify", "start", "update", "final", "done"}

\* main moves on from the position it is at
Advance == pc # "done" /\ pc' \in Positions \ {pc}

\* main is sequential and every call it makes returns: until it has
\* returned it does not stay at one position for ever
FairSpec == Init /\ [][Next]_vars /\ WF_pc(Advance)

----
\* write_wav_header as a function of the sample count: the header is written
\* to a fresh file for sample counts of tracks of few sectors and of tracks
\* whose byte count is about to wrap the 32-bit size fields

\* sectors per track explored around the origin and around the wrap
MaxHdr == 40

\* 2352 * 122348133 = 2^32 * 67 - 16
HeaderSectors == (0..MaxHdr) \cup ((122348133 - MaxHdr)..(122348133 + MaxHdr))

InitHeader ==
  /\ pc = "hdr"
  /\ buf = [data |-> << [src |-> -1, lo |-> 0, hi |-> DATA_SIZE - 1] >>,
            sub |-> [i \in 1..SUBCODE_SIZE |-> 0]]
  /\ output_file_name = TrackName(1)
  /\ start_offset = 0
  /\ end_offset = 0
  /\ offset = 0
  /\ track_fd = 3
  /\ track_number = 1
  /\ \E n \in HeaderSectors : num_samples = U32Mul(U32(n), SamplesPerSector)
  /\ count = 0
  /\ errno = "0"
  /\ exit_status = -1
  /\ fs = (TrackName(1) :> << >>)
  /\ fdtab = (3 :> [name |-> TrackName(1), pos |-> 0])
  /\ stderr = << >>
  /\ hist = << >>
  /\ exhausted = FALSE
  /\ fs0 = << >>
  /\ created = << TrackName(1) >>
  /\ open_failed = FALSE

\* write_wav_header(state->track_fd, state->num_samples)
HeaderStep ==
  /\ pc = "hdr"
  /\ LET w == write_wav_header(fs, fdtab, track_fd, num_samples)
     IN fs' = w[1] /\ fdtab' = w[2]
  /\ pc' = "hdr_done"
  /\ UNCHANGED <<buf, output_file_name, start_offset, end_offset, offset,
                 track_fd, track_number, num_samples, count, errno,
                 exit_status, stderr, hist, exhausted, fs0, created,
                 open_failed>>

NextHeader == HeaderStep

SpecHeader == InitHeader /\ [][NextHeader]_vars

----
\* Vocabulary of the properties

\* the i-th read delivered a whole sector
IsSector(i) == hist[i].count = BLOCK_SIZE

\* the kinds of sector that are a track start
BoundaryKinds == { k \in Kinds : IsBoundaryKind(k) }

\* the i-th read delivered a whole sector that is a track start
IsBoundarySector(i) == IsSector(i) /\ hist[i].kind \in BoundaryKinds

\* sector k is the first boundary sector of the stream
FirstBoundary(k) ==
  /\ k \in 1..Len(hist)
  /\ IsBoundarySector(k)
  /\ \A j \in 1..(k - 1) : ~IsBoundarySector(j)

\* sector m is the first boundary sector after sector k
NextBoundary(k, m) ==
  /\ m \in (k + 1)..Len(hist)
  /\ IsBoundarySector(m)
  /\ \A j \in (k + 1)..(m - 1) : ~IsBoundarySector(j)

\* main has classified the i-th read and closed the track it ends
Classified(i) == Len(hist) > i \/ (Len(hist) = i /\ pc # "classify")

\* the payload regions of the sectors a..b, in stream order
Payload(a, b) ==
  [i \in 1..(b - a + 1) |-> [src |-> a + i - 1, lo |-> 0, hi |-> DATA_SIZE - 1]]

Track01 == [prefix |-> "track_", digits |-> <<0, 1>>, suffix |-> ".wav"]
Track02 == [prefix |-> "track_", digits |-> <<0, 2>>, suffix |-> ".wav"]

\* no descriptor is open on the file
Closed(name) == \A fd \in DOMAIN fdtab : fdtab[fd].name # name

\* the size fields of a file's header
Subchunk2Field(name) == Le32At(fs[name], 40)
ChunkField(name) == Le32At(fs[name], 4)

\* the input was exactly the sectors of the kinds ks, then end of file
StreamWas(ks) ==
  /\ pc = "done"
  /\ Len(hist) = Len(ks)
  /\ \A i \in 1..Len(hist) : IsSector(i) /\ hist[i].kind = ks[i]

----
\* C1: when sector k is the first boundary sector and sector m > k the next
\* one, the file opened at k, track_01.wav, holds after its header exactly the
\* payload regions of the sectors k..m-1 in stream order, is closed, and its
\* subchunk2 size field is (m - k) * 2352.
C1_FirstTrackPayload ==
  \A k \in 1..Len(hist) : FirstBoundary(k) => \A m \in (k + 1)..Len(hist) :
    (NextBoundary(k, m) /\ Classified(m)) =>
      /\ Track01 \in DOMAIN fs
      /\ created # << >> /\ created[1] = Track01
      /\ Closed(Track01)
      /\ BLen(fs[Track01]) = WAV_HEADER_SIZE + (m - k) * DATA_SIZE
      /\ DropB(fs[Track01], WAV_HEADER_SIZE) = Payload(k, m - 1)
      /\ Subchunk2Field(Track01) = U32((m - k) * DATA_SIZE)

\* a first track of two sectors that starts at the second sector is closed
C1_Witness ==
  /\ FirstBoundary(2) /\ NextBoundary(2, 4) /\ Classified(4)
  /\ Track01 \in DOMAIN fs
  /\ DropB(fs[Track01], WAV_HEADER_SIZE) = Payload(2, 3)

\* C2 (as claimed): the payload of a sector before the first boundary sector
\* is in no file, and a stream without any boundary sector creates no file,
\* writes nothing and never has a session open.
C2_NothingBeforeFirstBoundary ==
  /\ \A i \in 1..Len(hist) :
       (IsSector(i) /\ \A j \in 1..i : ~IsBoundarySector(j)) =>
         \A name \in DOMAIN fs : \A r \in 1..Len(fs[name]) : fs[name][r].src # i
  /\ (\A j \in 1..Len(hist) : ~IsBoundarySector(j)) =>
       /\ created = << >>
       /\ fs = fs0
       /\ fdtab = << >>
       /\ track_fd = INVALID_FD \/ open_failed

\* C3 (as claimed): 1 boundary sector and 10 non-boundary sectors give one
\* file, track_01.wav, with subchunk2 size 10 * 2352 and chunk size
\* 10 * 2352 + 36.
C3_Claimed ==
  \A k \in {"N", "N1"} :
    (StreamWas(<<"B", k, k, k, k, k, k, k, k, k, k>>) /\ ~open_failed) =>
      /\ created = << Track01 >>
      /\ Subchunk2Field(Track01) = U32(10 * DATA_SIZE)
      /\ ChunkField(Track01) = U32(10 * DATA_SIZE + 36)

\* C3 (amended): 1 boundary sector and 10 non-boundary sectors give, when
\* track_01.wav can be created, exactly that file, closed, holding the payload
\* of all 11 sectors, with subchunk2 size 11 * 2352 and chunk size
\* 11 * 2352 + 36.
C3_ElevenSectors ==
  \A k \in {"N", "N1"} :
    (StreamWas(<<"B", k, k, k, k, k, k, k, k, k, k>>) /\ ~open_failed) =>
      /\ created = << Track01 >>
      /\ DOMAIN fs = DOMAIN fs0 \cup {Track01}
      /\ Closed(Track01)
      /\ DropB(fs[Track01], WAV_HEADER_SIZE) = Payload(1, 11)
      /\ Subchunk2Field(Track01) = U32(11 * DATA_SIZE)
      /\ ChunkField(Track01) = U32(11 * DATA_SIZE + 36)

C3_Witness ==
  /\ StreamWas(<<"B", "N", "N", "N", "N", "N", "N", "N", "N", "N", "N">>)
  /\ ~open_failed
  /\ Track01 \in DOMAIN fs

\* C4 (as claimed): two boundary sectors and nothing else give track_01.wav
\* and track_02.wav, each with 0 payload bytes, subchunk2 size 0 and chunk
\* size 36.
C4_Claimed ==
  (StreamWas(<<"B", "B">>) /\ ~open_failed) =>
    /\ created = << Track01, Track02 >>
    /\ \A name \in {Track01, Track02} :
         /\ BLen(fs[name]) = WAV_HEADER_SIZE
         /\ Subchunk2Field(name) = U32(0)
         /\ ChunkField(name) = U32(36)

\* C4 (amended): two boundary sectors and nothing else give, when both files
\* can be created, track_01.wav and track_02.wav, each closed and holding the
\* 2352 payload bytes of its own boundary sector, with subchunk2 size 2352 and
\* chunk size 2388.
C4_OneSectorEach ==
  (StreamWas(<<"B", "B">>) /\ ~open_failed) =>
    /\ created = << Track01, Track02 >>
    /\ DOMAIN fs = DOMAIN fs0 \cup {Track01, Track02}
    /\ Closed(Track01) /\ Closed(Track02)
    /\ DropB(fs[Track01], WAV_HEADER_SIZE) = Payload(1, 1)
    /\ DropB(fs[Track02], WAV_HEADER_SIZE) = Payload(2, 2)
    /\ \A name \in {Track01, Track02} :
         /\ Subchunk2Field(name) = U32(DATA_SIZE)
         /\ ChunkField(name) = U32(DATA_SIZE + 36)

C4_Witness ==
  /\ StreamWas(<<"B", "B">>)
  /\ ~open_failed
  /\ created = << Track01, Track02 >>

\* C5 (as claimed): in every written header the chunk size field at offset 4
\* is, as an integer, the subchunk2 size field at offset 40 plus 36.
C5_ChunkIsSubchunk2Plus36 ==
  \A name \in DOMAIN fs :
    (pc = "hdr_done" /\ BLen(fs[name]) >= WAV_HEADER_SIZE) =>
      /\ ChunkField(name).lo = (Subchunk2Field(name).lo + 36) % UINT16
      /\ ChunkField(name).hi =
           Subchunk2Field(name).hi + (Subchunk2Field(name).lo + 36) \div UINT16


\* value of a sequence of decimal digits
RECURSIVE DecVal(_)
DecVal(d) == IF d = << >> THEN 0 ELSE 10 * DecVal(SubSeq(d, 1, Len(d) - 1)) + d[Len(d)]

\* n in decimal, zero-padded to at least two digits
IsPaddedDecimal(d, n) ==
  /\ Len(d) >= 2
  /\ \A j \in 1..Len(d) : d[j] \in 0..9
  /\ DecVal(d) = n
  /\ Len(d) > 2 => d[1] # 0

\* open(2) calls of the run so far
Attempts == Len(created) + (IF open_failed THEN 1 ELSE 0)

\* C6 (as claimed): the i-th file created is track_XX.wav with XX the two
\* decimal digits of i, for any number of boundary sectors.
C6_Claimed ==
  \A i \in 1..Len(created) :
    created[i] = [prefix |-> "track_", digits |-> <<i \div 10, i % 10>>,
                  suffix |-> ".wav"]

\* C6 (amended): the n-th boundary sector attempts to create track_XX.wav with
\* XX = n in decimal zero-padded to at least two digits (three digits from
\* n = 100 on), and the files created by the run are exactly those of
\* 1..N, in this order.
C6_SequentialNames ==
  /\ \A i \in 1..Len(created) :
       /\ created[i].prefix = "track_" /\ created[i].suffix = ".wav"
       /\ IsPaddedDecimal(created[i].digits, i)
  /\ DOMAIN fs = DOMAIN fs0 \cup { created[i] : i \in 1..Len(created) }
  /\ \A i \in 1..Len(created) : created[i] \notin DOMAIN fs0
  /\ (pc \in {"update", "read", "classify", "final", "done"} /\ track_number >= 1) =>
       /\ track_number = Attempts
       /\ output_file_name.prefix = "track_" /\ output_file_name.suffix = ".wav"
       /\ IsPaddedDecimal(output_file_name.digits, track_number)
  /\ (pc \in {"read", "final", "done"} /\ \A i \in 1..Len(hist) : IsSector(i)) =>
       track_number = Cardinality({ i \in 1..Len(hist) : IsBoundarySector(i) })

\* the hundredth track has been created
C6_Witness ==
  /\ Len(created) = 100
  /\ created[100].digits = <<1, 0, 0>>
  /\ created[9].digits = <<0, 9>>

\* C7: a track file that exists before the run keeps its content throughout,
\* and the run that reaches its boundary sector has aborted: open failed with
\* EEXIST, no session is open and main is past its loop.
C7_ExistingFileUntouched ==
  /\ \A name \in DOMAIN fs0 :
       name \in DOMAIN fs /\ fs[name] = fs0[name] /\ Closed(name)
  /\ (pc \in {"update", "read", "classify", "final", "done"}
        /\ output_file_name \in DOMAIN fs0) =>
       /\ pc \in {"final", "done"}
       /\ open_failed
       /\ errno = "EEXIST"
       /\ track_fd = INVALID_FD

\* the run created track 1 and stopped at the existing track 2
C7_Witness ==
  /\ pc = "done"
  /\ created = << Track01 >>
  /\ output_file_name = Track02
  /\ Track02 \in DOMAIN fs0

\* C8: once the creation of track n failed, main is past its loop, nothing is
\* read or created any more and nothing on disk changes, and the tracks
\* 1..n-1 are on disk, closed, with size fields that match their length.
C8_AbortKeepsEarlierTracks ==
  /\ [](open_failed =>
          /\ pc \in {"final", "done"}
          /\ fdtab = << >>
          /\ Len(created) = track_number - 1
          /\ \A i \in 1..Len(created) :
               /\ created[i] \in DOMAIN fs
               /\ Subchunk2Field(created[i]) = U32(BLen(fs[created[i]]) - WAV_HEADER_SIZE)
               /\ ChunkField(created[i]) = U32(BLen(fs[created[i]]) - 8))
  /\ [][open_failed => (hist' = hist /\ created' = created /\ fs' = fs)]_vars

\* the creation of the third track failed after two tracks were written
C8_Witness ==
  /\ open_failed
  /\ pc = "done"
  /\ Len(created) = 2
  /\ BLen(fs[created[1]]) > WAV_HEADER_SIZE + DATA_SIZE

\* C9 (as claimed): main returns a failure status exactly when a track file
\* failed to open.
C9_ExitStatusTellsFailure ==
  pc = "done" => ((exit_status # 0) <=> open_failed)

\* C10 (as claimed): a read of fewer bytes than a sector ends the stream: main
\* goes to the final close_track, and no byte of such a read reaches a file.
C10_ShortReadEndsStream ==
  /\ (count > 0 /\ count < BLOCK_SIZE) => pc \in {"final", "done"}
  /\ \A name \in DOMAIN fs : \A r \in 1..Len(fs[name]) :
       fs[name][r].src >= 1 => IsSector(fs[name][r].src)


----
\* is_track_start as a function of the block: main classifies blocks whose
\* subcode region is drawn from a set of patterns, in a fresh run and in a
\* run that has a track open

\* subcode bytes: no bit, bit 0, all but P, P only, all but bit 0, all
PatBytes == {0, 1, 127, 128, 254, 255}

\* positions of the subcode region that carry the odd byte of a pattern
PatPos == {1, 2, SUBCODE_SIZE \div 2, SUBCODE_SIZE - 1, SUBCODE_SIZE}

\* subcode regions: v everywhere but w at position j
Patterns ==
  { [i \in 1..SUBCODE_SIZE |-> IF i = j THEN w ELSE v] :
      v \in PatBytes, w \in PatBytes, j \in PatPos }

\* payload regions: the zeroed buffer, a block of the image
PatData ==
  { << [src |-> -1, lo |-> 0, hi |-> DATA_SIZE - 1] >>,
    << [src |-> 2, lo |-> 0, hi |-> DATA_SIZE - 1] >> }

\* main at line 176, holding a block that hist does not record: either
\* nothing was read before, or one boundary sector was and its track is open
InitClassify ==
  /\ pc = "classify"
  /\ \E d \in PatData, p \in Patterns : buf = [data |-> d, sub |-> p]
  /\ start_offset = 0
  /\ end_offset = 0
  /\ errno = "0"
  /\ exit_status = -1
  /\ stderr = << >>
  /\ exhausted = FALSE
  /\ fs0 = << >>
  /\ open_failed = FALSE
  /\ count = BLOCK_SIZE
  /\ \/ /\ output_file_name = [prefix |-> "", digits |-> << >>, suffix |-> ""]
        /\ offset = 0
        /\ track_fd = INVALID_FD
        /\ track_number = 0
        /\ num_samples = U32(0)
        /\ fs = << >>
        /\ fdtab = << >>
        /\ hist = << >>
        /\ created = << >>
     \/ /\ output_file_name = TrackName(1)
        /\ offset = BLOCK_SIZE
        /\ track_fd = 3
        /\ track_number = 1
        /\ num_samples = U32(SamplesPerSector)
        /\ fs = (TrackName(1) :>
                   LitRuns(wav_header(U32(0)))
                     \o << [src |-> 1, lo |-> 0, hi |-> DATA_SIZE - 1] >>)
        /\ fdtab = (3 :> [name |-> TrackName(1), pos |-> WAV_HEADER_SIZE + DATA_SIZE])
        /\ hist = << [kind |-> "B", count |-> BLOCK_SIZE] >>
        /\ created = << TrackName(1) >>

NextClassify == TrackStart \/ NoTrackStart

SpecClassify == InitClassify /\ [][NextClassify]_vars

\* C11: main takes the block for a track start exactly when each of the 96
\* subcode bytes has bit 7 set (is 128 or more), whatever the payload, the
\* other bits of the subcode bytes and the state of the run.
C11_BoundaryIffAllPBits ==
  pc \in {"start", "update"} =>
    ((pc = "start") <=> \A i \in 1..SUBCODE_SIZE : buf.sub[i] >= 128)

\* a block with the P bit clear in the last subcode byte only was classified
C11_Witness ==
  /\ pc = "update"
  /\ buf.sub[SUBCODE_SIZE] = 127
  /\ \A i \in 1..(SUBCODE_SIZE - 1) : buf.sub[i] = 255
  /\ track_fd = 3


\* the lines close_track printed, in order
TrackLines == SelectSeq(stderr, LAMBDA l : l.line = "track")

\* the file starts with 44 literal bytes and has bytes after them
HasHeaderAndPayload(name) ==
  /\ Len(fs[name]) > WAV_HEADER_SIZE
  /\ \A i \in 1..WAV_HEADER_SIZE : fs[name][i].src = 0 /\ RunLen(fs[name][i]) = 1

\* bytes of the runs i.. of c
RECURSIVE LenFrom(_, _)
LenFrom(c, i) == IF i > Len(c) THEN 0 ELSE RunLen(c[i]) + LenFrom(c, i + 1)

\* the read whose payload is the first after the 44 header bytes
FirstSrc(name) == fs[name][WAV_HEADER_SIZE + 1].src

\* the payload regions after the 44 header bytes
NumBlocks(name) == LenFrom(fs[name], WAV_HEADER_SIZE + 1) \div DATA_SIZE

\* one line per closed track, for the tracks in order; the block that opened
\* a track is a boundary sector when it is a whole sector, and the track ends
\* at the next boundary sector or at the end of the stream
OneLinePerClosedTrack ==
  /\ Len(TrackLines) <= Len(created)
  /\ \A j \in 1..Len(created) : (j <= Len(TrackLines)) <=> Closed(created[j])
  /\ pc = "done" => Len(TrackLines) = Len(created)
  /\ \A j \in 1..Len(TrackLines) :
       LET k == FirstSrc(created[j])
           e == k + NumBlocks(created[j])
       IN /\ TrackLines[j].name = created[j]
          /\ HasHeaderAndPayload(created[j])
          /\ k \in 1..Len(hist)
          /\ IsSector(k) => IsBoundarySector(k)
          /\ e \in (k + 1)..(Len(hist) + 1)
          /\ (e <= Len(hist) /\ IsSector(e)) => IsBoundarySector(e)

\* C12 (as claimed): one line per finalized track, whose start offset is the
\* 0-based index of the sector that opened the track and whose end offset is
\* the index of the sector, or end-of-stream position, that finalized it.
C12_Claimed ==
  /\ OneLinePerClosedTrack
  /\ \A j \in 1..Len(TrackLines) :
       /\ TrackLines[j].start_offset = FirstSrc(created[j]) - 1
       /\ TrackLines[j].end_offset =
            FirstSrc(created[j]) - 1 + NumBlocks(created[j])

\* C12 (amended): one line per finalized track, whose offsets are in bytes of
\* the input: the start offset is 2448 times the 0-based index of the block
\* that opened the track and the end offset is 2448 times the index of the
\* block, or end-of-stream position, that finalized it.
C12_OffsetsInBytes ==
  /\ OneLinePerClosedTrack
  /\ \A j \in 1..Len(TrackLines) :
       /\ TrackLines[j].start_offset = BLOCK_SIZE * (FirstSrc(created[j]) - 1)
       /\ TrackLines[j].end_offset =
            BLOCK_SIZE * (FirstSrc(created[j]) - 1 + NumBlocks(created[j]))
       /\ TrackLines[j].duration_s =
            (NumBlocks(created[j]) * DATA_SIZE) \div (4 * sample_rate)

\* a track that starts at the second sector and ends at the fourth is reported
C12_Witness ==
  /\ Len(TrackLines) >= 1
  /\ TrackLines[1].start_offset = BLOCK_SIZE
  /\ TrackLines[1].end_offset = 3 * BLOCK_SIZE
  /\ pc = "done"


\* the 32-bit field at byte offset off of a header of 44 literal bytes
HeaderField(c, off) ==
  [hi |-> c[off + 3].lo + 256 * c[off + 4].lo,
   lo |-> c[off + 1].lo + 256 * c[off + 2].lo]

\* content c starts with 44 literal bytes
HasHeader(c) ==
  /\ Len(c) >= WAV_HEADER_SIZE
  /\ \A i \in 1..WAV_HEADER_SIZE : c[i].src = 0 /\ RunLen(c[i]) = 1

\* what follows the first 44 runs of c
AfterHeader(c) == SubSeq(c, WAV_HEADER_SIZE + 1, Len(c))

\* the file is closed and its subchunk2 size is the length of its payload
Finalized(name) ==
  /\ Closed(name)
  /\ HasHeader(fs[name])
  /\ HeaderField(fs[name], 40) = U32(LenFrom(fs[name], WAV_HEADER_SIZE + 1))

\* C13: at most one descriptor is open at any time, and a file is created
\* only when no descriptor is open and every track created before is closed
\* with its final header.
C13_OneSessionAtATime ==
  /\ [](/\ Cardinality(DOMAIN fdtab) <= 1
        /\ pc = "start" =>
             /\ fdtab = << >>
             /\ \A j \in 1..Len(created) : Finalized(created[j]))
  /\ [][created' # created =>
          /\ fdtab = << >>
          /\ Cardinality(DOMAIN fdtab') = 1
          /\ \A j \in 1..Len(created) :
               Finalized(created[j]) /\ fs'[created[j]] = fs[created[j]]]_vars

\* the second track is open, the first one is finalized
C13_Witness ==
  /\ Len(created) = 2
  /\ Cardinality(DOMAIN fdtab) = 1
  /\ ~Closed(created[2])
  /\ Finalized(created[1])
  /\ NumBlocks(created[1]) = 2

\* the header of an empty track
PlaceholderBytes ==
  << 82, 73, 70, 70,   36, 0, 0, 0,   87, 65, 86, 69,   102, 109, 116, 32,
     16, 0, 0, 0,   1, 0,   2, 0,   68, 172, 0, 0,   16, 177, 2, 0,   4, 0,
     16, 0,   100, 97, 116, 97,   0, 0, 0, 0 >>

\* C15: the step that creates a file leaves it with exactly the 44 bytes of
\* a header of subchunk2 size 0 and chunk size 36, and from then on the file
\* starts with 44 header bytes ("RIFF" first, "data" at 36) and every payload
\* byte is at offset 44 or beyond.
C15_PlaceholderBeforePayload ==
  /\ [](\A j \in 1..Len(created) :
          LET c == fs[created[j]]
          IN /\ HasHeader(c)
             /\ SubSeq(c, 1, 4) = LitRuns(RIFF)
             /\ SubSeq(c, 37, 40) = LitRuns(DATA)
             /\ \A i \in (WAV_HEADER_SIZE + 1)..Len(c) : c[i].src # 0)
  /\ [][created' # created =>
          /\ Len(created') = Len(created) + 1
          /\ fs'[created'[Len(created')]] =
               [i \in 1..WAV_HEADER_SIZE |->
                  [src |-> 0, lo |-> PlaceholderBytes[i], hi |-> PlaceholderBytes[i]]]]_vars

\* the second track was just created, the first one holds payload
C15_Witness ==
  /\ pc = "update"
  /\ Len(created) = 2
  /\ Len(fs[created[2]]) = WAV_HEADER_SIZE
  /\ NumBlocks(created[1]) = 2

\* C16: the step that closes a file changes its first 44 bytes only: the
\* bytes from offset 44 on and the length of the file stay, the new header
\* carries the length of the payload, and the other files stay as they are.
C16_FinalizeTouchesHeaderOnly ==
  [][\A fd \in DOMAIN fdtab : fd \notin DOMAIN fdtab' =>
       LET n == fdtab[fd].name
       IN /\ HasHeader(fs[n]) /\ HasHeader(fs'[n])
          /\ Len(fs'[n]) = Len(fs[n])
          /\ AfterHeader(fs'[n]) = AfterHeader(fs[n])
          /\ LenFrom(fs'[n], 1) = LenFrom(fs[n], 1)
          /\ HeaderField(fs'[n], 40) = U32(LenFrom(fs[n], WAV_HEADER_SIZE + 1))
          /\ DOMAIN fs' = DOMAIN fs
          /\ \A m \in DOMAIN fs \ {n} : fs'[m] = fs[m]]_vars

\* a track of three sectors was closed
C16_Witness ==
  /\ Track01 \in DOMAIN fs /\ created # << >> /\ created[1] = Track01
  /\ Closed(Track01)
  /\ AfterHeader(fs[Track01]) = Payload(1, 3)
  /\ HeaderField(fs[Track01], 40) = U32(3 * DATA_SIZE)

\* C19: while a track is open its sample count times 4 is the number of
\* payload bytes in its file, each block adds 588 samples and 2352 bytes, and
\* the subchunk2 size of a closed track is the length of its payload.
C19_SamplesMatchPayload ==
  /\ [](/\ \A fd \in DOMAIN fdtab :
             /\ fd = track_fd
             /\ U32Mul(num_samples, 4) =
                  U32(LenFrom(fs[fdtab[fd].name], WAV_HEADER_SIZE + 1))
        /\ \A j \in 1..Len(created) :
             Closed(created[j]) => Finalized(created[j]))
  /\ [][(pc = "update" /\ track_fd \in DOMAIN fdtab) =>
          /\ num_samples' = U32Add(num_samples, U32(588))
          /\ LenFrom(fs'[output_file_name], 1) =
               LenFrom(fs[output_file_name], 1) + 2352]_vars

\* an open track holds two blocks
C19_Witness ==
  /\ track_fd \in DOMAIN fdtab
  /\ num_samples = U32(1176)
  /\ LenFrom(fs[output_file_name], WAV_HEADER_SIZE + 1) = 4704

\* C20: where main uses state.track_fd (update_track, close_track) it is
\* INVALID_FD or an open descriptor, a closed descriptor being left in it
\* only until start_track or the exit; files, descriptors and the track lines
\* change only through an open descriptor; and after a failed creation the
\* handle is INVALID_FD and the final close_track changes and prints nothing.
C20_NoUseOfClosedHandle ==
  /\ [](/\ pc \in {"read", "classify", "update", "final"} =>
             (track_fd = INVALID_FD \/ track_fd \in DOMAIN fdtab)
        /\ open_failed => track_fd = INVALID_FD)
  /\ [][/\ (pc \in {"classify", "update", "final"}
              /\ (fs' # fs \/ fdtab' # fdtab \/ stderr' # stderr)) =>
             track_fd \in DOMAIN fdtab
        /\ (pc = "final" /\ open_failed) =>
             (fs' = fs /\ fdtab' = fdtab /\ stderr' = stderr
                /\ end_offset' = end_offset)]_vars

\* the run ended after the creation of the second track failed
C20_Witness ==
  /\ pc = "done"
  /\ open_failed
  /\ Len(created) = 1
  /\ Len(TrackLines) = 1
  /\ Closed(created[1])


\* the track lines printed so far are those of the first tracks created
LinesFollowCreated ==
  /\ Len(TrackLines) <= Len(created)
  /\ \A j \in 1..Len(TrackLines) : TrackLines[j].name = created[j]
  /\ \A j \in 1..Len(created) : DecVal(created[j].digits) = j

\* every track created is finalized, with its one line, and holds payload
\* under a header that is not the placeholder
AllFinalizedOnce ==
  /\ Len(TrackLines) = Len(created)
  /\ \A j \in 1..Len(created) :
       /\ Finalized(created[j])
       /\ NumBlocks(created[j]) >= 1
       /\ HeaderField(fs[created[j]], 40) # U32(0)

\* C14: every track created is in the end finalized, at the next boundary
\* block, at the end of the input or when a later creation fails; it is
\* finalized once (one line per track, a finalized file is not written
\* again), and when main has returned no file with payload has the
\* placeholder header.
C14_EveryTrackFinalizedOnce ==
  /\ <>[]AllFinalizedOnce
  /\ [](LinesFollowCreated /\ (pc = "done" => AllFinalizedOnce))
  /\ [][\A j \in 1..Len(created) :
          Finalized(created[j]) =>
            (fs'[created[j]] = fs[created[j]] /\ Closed(created[j])')]_vars

\* three tracks were created and main has returned
C14_Witness ==
  /\ pc = "done"
  /\ Len(created) = 3
  /\ AllFinalizedOnce
  /\ NumBlocks(created[1]) = 2

\* C18: main returns in the end; it leaves its loop only from the read, with
\* count <= 0, or from start_track, with a failed open; and it returns only
\* through the final close_track, after which no descriptor is open and
\* every track created is finalized.
C18_TerminatesThroughFinalClose ==
  /\ <>(pc = "done")
  /\ [](pc = "done" =>
          /\ exit_status = 0
          /\ fdtab = << >>
          /\ \A j \in 1..Len(created) : Finalized(created[j]))
  /\ [][/\ (pc' = "final" /\ pc # "final") =>
             \/ pc = "read" /\ count' <= 0
             \/ pc = "start" /\ open_failed' /\ track_fd' = INVALID_FD
        /\ (pc' = "done" /\ pc # "done") => pc = "final"
        /\ pc = "done" => pc' = "done"]_vars

\* main returned at the end of an input in which a track was open
C18_Witness ==
  /\ pc = "done"
  /\ count = 0
  /\ ~open_failed
  /\ Len(created) = 2
  /\ Len(hist) = 4

----
\* Writes that fail

\* write(2) may fail while one of the first MaxFail sectors is processed
MaxFail == 2

\* whether the write of this sector may fail
MayFail == IF Len(hist) <= MaxFail THEN BOOLEAN ELSE {FALSE}

\* update_track(state) when write(2) on line 155 may return -1 with nothing
\* written and errno set: the result is not looked at
update_track_io ==
  IF track_fd # INVALID_FD
  THEN /\ \E failed \in MayFail :
            /\ LET w == IF failed THEN << fs, fdtab >>
                        ELSE Write(fs, fdtab, track_fd, TakeB(buf.data, DATA_SIZE))
               IN fs' = w[1] /\ fdtab' = w[2]
            /\ errno' = IF failed THEN "EIO" ELSE errno
       /\ num_samples' = U32Add(num_samples, U32(SamplesPerSector))
  ELSE UNCHANGED <<fs, fdtab, num_samples, errno>>

\* main, lines 184-185, with a write that may fail
UpdateTrackIO ==
  /\ pc = "update"
  /\ update_track_io
  /\ offset' = offset + BLOCK_SIZE
  /\ pc' = "read"
  /\ UNCHANGED <<buf, output_file_name, start_offset, end_offset, track_fd,
                 track_number, count, exit_status, stderr, hist,
                 exhausted, fs0, created, open_failed>>

NextIO ==
  \/ Read
  \/ EndOfInput
  \/ TrackStart
  \/ NoTrackStart
  \/ start_track
  \/ UpdateTrackIO
  \/ Finish

SpecIO == Init /\ [][NextIO]_vars

\* C17: a payload write that fails (the file is left as it was) ends the
\* run at once: no further sector is read and the samples of the failed
\* write are not counted
C17_FailedWriteStopsRun ==
  [][(pc = "update" /\ track_fd # INVALID_FD /\ fs' = fs)
       => (pc' # "read" /\ num_samples' = num_samples)]_vars

====
